---- MODULE Spec2Model ----
(***************************************************************************)
(* Model of cdl_crop_rotation.py: a linear batch script that clamps a      *)
(* requested year range, checks the working directory, and then, for each  *)
(* year, fetches a Cropland Data Layer raster, masks it to the AOI         *)
(* polygon, tallies the dominant nonzero class code, translates it to a    *)
(* label and finally writes the (year, crop) table.                        *)
(***************************************************************************)
EXTENDS Integers, Sequences, FiniteSets, TLC

VARIABLES
    pc,          \* position of the script
    error,       \* the exception that ended the run, "none" while none was raised
    beg_yr,      \* beginning year (user variable, rewritten by the clamping)
    num_yrs,     \* number of years (user variable, rewritten by the clamping)
    req_beg_yr,  \* beginning year as configured (history)
    req_num_yrs, \* number of years as configured (history)
    clean_up,    \* delete each CDL raster after use
    err,         \* error switch of the directory check
    fs,          \* paths that exist below the working directory
    tifs,        \* years whose raster file exists in the raster directory
    cmap,        \* rows of cdl_map.csv, in file order
    clip_shp,    \* cells of the raster extent that lie inside the AOI polygon
    yrs,         \* the list the year loop iterates over
    i,           \* number of loop iterations started (0: yr is still unbound)
    yr,          \* loop variable
    resp,        \* body of the clip service's answer
    dl_url,      \* text of the returnURL element, "None" when there is none
    payload,     \* body of the download answer
    dat,         \* masked grid of the current year
    crop_max,    \* running dominant code
    max_cnt,     \* running dominant count
    results,     \* container for results: <<year, crop name>> rows
    csv,         \* rows of the results file written by this run
    io           \* external effects in order: <<kind, year>>

vars == <<pc, error, beg_yr, num_yrs, req_beg_yr, req_num_yrs, clean_up, err,
          fs, tifs, cmap, clip_shp, yrs, i, yr, resp, dl_url, payload, dat,
          crop_max, max_cnt, results, csv, io>>

----------------------------------------------------------------------------
(* Bounds of the model *)

\* configured num_yrs ranges over 0..MaxNumYrs in the run specification
MaxNumYrs == 3

\* a raster extent has 1..NCells cells in the tally specification
NCells == 3

\* configured years range over cdl_yrs[1]-YrMargin .. cdl_yrs[2]+YrMargin and
\* counts over -1 .. (span length)+YrMargin in the clamping specification
YrMargin == 3

----------------------------------------------------------------------------
(* Program constants and inputs *)

cdl_yrs == <<2009, 2024>>

dirs == <<"geometry", "results", "raster">>

\* class codes of the Cropland Data Layer that the model's rasters use
CellCodes == {0, 1, 5, 24}

ClassNames == (0 :> "Background") @@ (1 :> "Corn") @@ (5 :> "Soybeans")
              @@ (24 :> "Winter Wheat")

CmapRows(codes) ==
    [r \in DOMAIN codes |-> [Codes |-> codes[r], Name |-> ClassNames[codes[r]]]]

\* contents of cdl_map.csv the run may find: complete, without the
\* background code, without one crop code
Cmaps == { CmapRows(<<0, 1, 5, 24>>), CmapRows(<<1, 5, 24>>),
           CmapRows(<<0, 1, 5>>) }

\* working directories the run may start in: a fresh one holding only the
\* AOI, one used before (all directories, a prior results file), one whose
\* AOI file is missing, and one without the geometry directory
FsStates == { {"geometry", "aoi"},
              {"geometry", "aoi", "results", "raster", "csv"},
              {"geometry", "results", "raster", "csv"},
              {"results", "csv"} }

\* rasters the service may return in the run specification (4 cells)
Fixtures == { <<5, 5, 1, 0>>, <<1, 1, 5, 5>>, <<1, 5, 0, 1>>,
              <<0, 0, 0, 5>>, <<24, 24, 1, 0>> }

\* AOI polygons of the run specification, as sets of cells
Polygons == { {1, 2, 3}, {2, 3, 4} }

BegYrs == {2008, 2011, 2023, 2026}

NoPayload == [valid |-> FALSE, status_ok |-> FALSE, grid |-> <<>>]

RasterBody(g) == [valid |-> TRUE, status_ok |-> TRUE, grid |-> g]

\* bodies the download may return: a raster, the error page of a failed
\* request (HTTP error status; requests raises nothing for it), or a body
\* delivered with status 200 that is no raster file
ErrorPage == [valid |-> FALSE, status_ok |-> FALSE, grid |-> <<>>]

CorruptBody == [valid |-> FALSE, status_ok |-> TRUE, grid |-> <<>>]

DownloadBodies == {RasterBody(g) : g \in Fixtures} \cup {ErrorPage, CorruptBody}

\* bodies the clip service may return
ClipBodies == {"xml_returnURL", "xml_no_returnURL", "not_xml"}

----------------------------------------------------------------------------
(* Pure helpers *)

SetMin(S) == CHOOSE x \in S : \A y \in S : x <= y

SetMax(S) == CHOOSE x \in S : \A y \in S : x >= y

RECURSIVE SortedSeq(_)
SortedSeq(S) == IF S = {} THEN <<>>
                ELSE <<SetMin(S)>> \o SortedSeq(S \ {SetMin(S)})

\* lines 59-60
ClampNum(n) == IF n > cdl_yrs[2] - cdl_yrs[1] THEN cdl_yrs[2] - cdl_yrs[1] ELSE n

\* lines 62-63
ClampLow(b) == IF b < cdl_yrs[1] THEN cdl_yrs[1] ELSE b

\* lines 65-66, n being the count after lines 59-60
ClampHigh(b, n) == IF b > cdl_yrs[2] THEN cdl_yrs[2] - n ELSE b

\* line 100: [beg_yr+i for i in range(num_yrs)]
YearList(b, n) == [j \in 1..n |-> b + (j - 1)]

\* variant: only the geometry directory is checked, not the AOI file
PrereqErrDirOnly(paths) == dirs[1] \notin paths

\* lines 69-79: the error switch after the directory and AOI checks
PrereqErr(paths) == (dirs[1] \notin paths) \/ ("aoi" \notin paths)

\* lines 69-76: directories the check creates
MadeDirs(paths) == {dirs[d] : d \in 2..3} \ paths

\* line 139: mask.mask(ras, clip_shp.geometry, crop=True): cells outside the
\* polygon become 0 and the grid is trimmed to the polygon's extent
Mask(ras, shp) ==
    LET inside == shp \cap DOMAIN ras
        masked == [c \in DOMAIN ras |-> IF c \in inside THEN ras[c] ELSE 0]
    IN  IF inside = {} THEN <<>>
        ELSE SubSeq(masked, SetMin(inside), SetMax(inside))

\* variant: the nonzero filter of line 149 is dropped
CropsWithZero(grid) == SortedSeq({grid[c] : c \in DOMAIN grid})

\* line 149: np.unique(dat[np.where(dat!=0)]): distinct nonzero values, ascending
Crops(grid) == SortedSeq({grid[c] : c \in DOMAIN grid} \ {0})

\* line 159: np.sum(np.where(dat==c,1,0))
Count(grid, c) == Cardinality({j \in DOMAIN grid : grid[j] = c})

\* variant: the comparison of line 162 is not strict
LargerOrEqual(cnt, prior) == cnt >= prior

\* line 162
Larger(cnt, prior) == cnt > prior

\* lines 152-164: the loop over crops, from the state <<crop_max, max_cnt>>
RECURSIVE TallyLoop(_, _, _)
TallyLoop(crops, grid, st) ==
    IF crops = <<>> THEN st
    ELSE LET c   == Head(crops)
             cnt == Count(grid, c)
         IN  TallyLoop(Tail(crops), grid,
                       IF Larger(cnt, st[2]) THEN <<c, cnt>> ELSE st)

\* variant: an empty label stands in for a code without a row
MatchesOrDefault(table, code) ==
    LET hit == {r \in DOMAIN table : table[r].Codes = code}
        idx == SortedSeq(hit)
    IN  IF hit = {} THEN <<"">> ELSE [r \in DOMAIN idx |-> table[idx[r]].Name]

\* line 167: cmap.loc[cmap.Codes==crop_max]['Current Class Names'].values
Matches(table, code) ==
    LET hit == {r \in DOMAIN table : table[r].Codes = code}
        idx == SortedSeq(hit)
    IN  [r \in DOMAIN idx |-> table[idx[r]].Name]

----------------------------------------------------------------------------
(* Initial states *)

Fresh ==
    /\ pc = "start"
    /\ error = "none"
    /\ err = FALSE
    /\ yrs = <<>>
    /\ i = 0
    /\ yr = 0
    /\ resp = "none"
    /\ dl_url = "None"
    /\ payload = NoPayload
    /\ dat = <<>>
    /\ crop_max = 0
    /\ max_cnt = 0
    /\ results = <<>>
    /\ csv = <<>>
    /\ io = <<>>

Init ==
    /\ Fresh
    /\ req_beg_yr \in BegYrs
    /\ req_num_yrs \in 0..MaxNumYrs
    /\ beg_yr = req_beg_yr
    /\ num_yrs = req_num_yrs
    /\ clean_up \in BOOLEAN
    /\ fs \in FsStates
    /\ tifs = IF "raster" \in fs THEN {2011, 2023} ELSE {}
    /\ cmap \in Cmaps
    /\ clip_shp \in Polygons

----------------------------------------------------------------------------
(* Steps of the script *)

\* variant: the exception is caught and the table is written anyway
RaiseThenWrite(e) ==
    /\ error' = e
    /\ pc' = "post"

\* variant: the exception is caught and the loop goes on to the next year
RaiseAndContinue(e) ==
    /\ error' = e
    /\ pc' = "loop"

\* an exception nothing catches: the script stops where it is
Raise(e) ==
    /\ error' = e
    /\ pc' = "crashed"

\* lines 56-66: clamp the requested range to the CDL years
Clamp ==
    /\ pc = "start"
    /\ num_yrs' = ClampNum(num_yrs)
    /\ beg_yr' = ClampHigh(ClampLow(beg_yr), ClampNum(num_yrs))
    /\ pc' = "check"
    /\ UNCHANGED <<error, req_beg_yr, req_num_yrs, clean_up, err, fs, tifs,
                   cmap, clip_shp, yrs, i, yr, resp, dl_url, payload, dat,
                   crop_max, max_cnt, results, csv, io>>

\* lines 68-85: directory structure and AOI check, message on error
CheckDirs ==
    /\ pc = "check"
    /\ fs' = fs \cup MadeDirs(fs)
    /\ err' = PrereqErr(fs)
    /\ IF PrereqErr(fs)
       THEN /\ io' = Append(io, <<"print_err", 0>>)
            /\ pc' = "exit"
       ELSE /\ io' = io
            /\ pc' = "setup"
    /\ UNCHANGED <<error, beg_yr, num_yrs, req_beg_yr, req_num_yrs, clean_up,
                   tifs, cmap, clip_shp, yrs, i, yr, resp, dl_url, payload,
                   dat, crop_max, max_cnt, results, csv>>

\* lines 87-100: read the class map and the geometry, build the year list
Setup ==
    /\ pc = "setup"
    /\ yrs' = YearList(beg_yr, num_yrs)
    /\ pc' = "loop"
    /\ UNCHANGED <<error, beg_yr, num_yrs, req_beg_yr, req_num_yrs, clean_up,
                   err, fs, tifs, cmap, clip_shp, i, yr, resp, dl_url,
                   payload, dat, crop_max, max_cnt, results, csv, io>>

\* the loop exit test of line 100
LoopExit(n, list) == n >= Len(list)

\* line 100: next year of the list, or leave the loop
LoopHead ==
    /\ pc = "loop"
    /\ IF LoopExit(i, yrs)
       THEN /\ pc' = "post"
            /\ UNCHANGED <<i, yr>>
       ELSE /\ i' = i + 1
            /\ yr' = yrs[i + 1]
            /\ pc' = "clip"
    /\ UNCHANGED <<error, beg_yr, num_yrs, req_beg_yr, req_num_yrs, clean_up,
                   err, fs, tifs, cmap, clip_shp, yrs, resp, dl_url, payload,
                   dat, crop_max, max_cnt, results, csv, io>>

\* lines 105-111: the clip request; it raises or returns a body
ClipRequest ==
    /\ pc = "clip"
    /\ io' = Append(io, <<"GET_clip", yr>>)
    /\ \E outcome \in ClipBodies \cup {"exception"} :
          IF outcome = "exception"
          THEN /\ Raise("clip_request")
               /\ resp' = resp
          ELSE /\ resp' = outcome
               /\ pc' = "parse"
               /\ error' = error
    /\ UNCHANGED <<beg_yr, num_yrs, req_beg_yr, req_num_yrs, clean_up, err,
                   fs, tifs, cmap, clip_shp, yrs, i, yr, dl_url, payload, dat,
                   crop_max, max_cnt, results, csv>>

\* lines 114-115: parse the answer and read the returnURL text
ParseXML ==
    /\ pc = "parse"
    /\ IF resp = "not_xml"
       THEN /\ Raise("xml_parse")
            /\ dl_url' = dl_url
       ELSE /\ dl_url' = IF resp = "xml_returnURL" THEN "url" ELSE "None"
            /\ pc' = "download"
            /\ error' = error
    /\ UNCHANGED <<beg_yr, num_yrs, req_beg_yr, req_num_yrs, clean_up, err,
                   fs, tifs, cmap, clip_shp, yrs, i, yr, resp, payload, dat,
                   crop_max, max_cnt, results, csv, io>>

\* line 118: the download request; req.get(None) raises before anything is
\* sent, otherwise the request raises or returns a body
Download ==
    /\ pc = "download"
    /\ IF dl_url = "None"
       THEN /\ Raise("no_return_url")
            /\ UNCHANGED <<payload, io>>
       ELSE /\ io' = Append(io, <<"GET_download", yr>>)
            /\ \E outcome \in {"exception", "body"} :
                  IF outcome = "exception"
                  THEN /\ Raise("download_request")
                       /\ payload' = payload
                  ELSE /\ payload' \in DownloadBodies
                       /\ pc' = "store"
                       /\ error' = error
    /\ UNCHANGED <<beg_yr, num_yrs, req_beg_yr, req_num_yrs, clean_up, err,
                   fs, tifs, cmap, clip_shp, yrs, i, yr, resp, dl_url, dat,
                   crop_max, max_cnt, results, csv>>

\* lines 121-133: remove a raster file left at the path, write the body
StoreRaster ==
    /\ pc = "store"
    /\ tifs' = tifs \cup {yr}
    /\ io' = IF yr \in tifs
             THEN io \o <<<<"remove_tif", yr>>, <<"write_tif", yr>>>>
             ELSE Append(io, <<"write_tif", yr>>)
    /\ pc' = "open"
    /\ UNCHANGED <<error, beg_yr, num_yrs, req_beg_yr, req_num_yrs, clean_up,
                   err, fs, cmap, clip_shp, yrs, i, yr, resp, dl_url, payload,
                   dat, crop_max, max_cnt, results, csv>>

\* lines 136-146: open the raster (raises on a body that is no raster), mask
\* it to the polygon, delete the file when clean_up is set
OpenMask ==
    /\ pc = "open"
    /\ IF ~payload.valid
       THEN /\ Raise("raster_open")
            /\ UNCHANGED <<dat, tifs, io>>
       ELSE /\ dat' = Mask(payload.grid, clip_shp)
            /\ tifs' = IF clean_up THEN tifs \ {yr} ELSE tifs
            /\ io' = Append(io, <<"mask", yr>>)
            /\ pc' = "tally"
            /\ error' = error
    /\ UNCHANGED <<beg_yr, num_yrs, req_beg_yr, req_num_yrs, clean_up, err,
                   fs, cmap, clip_shp, yrs, i, yr, resp, dl_url, payload,
                   crop_max, max_cnt, results, csv>>

\* lines 148-164: enumerate the nonzero codes and keep the dominant one
Tally ==
    /\ pc = "tally"
    /\ LET st == TallyLoop(Crops(dat), dat, <<0, 0>>)
       IN  /\ crop_max' = st[1]
           /\ max_cnt' = st[2]
    /\ pc' = "lookup"
    /\ UNCHANGED <<error, beg_yr, num_yrs, req_beg_yr, req_num_yrs, clean_up,
                   err, fs, tifs, cmap, clip_shp, yrs, i, yr, resp, dl_url,
                   payload, dat, results, csv, io>>

\* lines 166-170: name of the dominant code (values[0] raises when no row
\* matches), append the row
Lookup ==
    /\ pc = "lookup"
    /\ LET names == Matches(cmap, crop_max)
       IN  IF names = <<>>
           THEN /\ Raise("lookup")
                /\ results' = results
           ELSE /\ results' = Append(results, <<yr, names[1]>>)
                /\ pc' = "loop"
                /\ error' = error
    /\ UNCHANGED <<beg_yr, num_yrs, req_beg_yr, req_num_yrs, clean_up, err,
                   fs, tifs, cmap, clip_shp, yrs, i, yr, resp, dl_url,
                   payload, dat, crop_max, max_cnt, csv, io>>

\* lines 172-183: build the output path (yr and bb_str are unbound when the
\* loop body never ran), remove a prior output, write the table
PostLoop ==
    /\ pc = "post"
    /\ IF i = 0
       THEN /\ Raise("name_error")
            /\ UNCHANGED <<fs, csv, io>>
       ELSE /\ io' = IF "csv" \in fs
                     THEN io \o <<<<"remove_csv", yr>>, <<"write_csv", yr>>>>
                     ELSE Append(io, <<"write_csv", yr>>)
            /\ fs' = fs \cup {"csv"}
            /\ csv' = results
            /\ pc' = "done"
            /\ error' = error
    /\ UNCHANGED <<beg_yr, num_yrs, req_beg_yr, req_num_yrs, clean_up, err,
                   tifs, cmap, clip_shp, yrs, i, yr, resp, dl_url, payload,
                   dat, crop_max, max_cnt, results>>

Next ==
    \/ Clamp
    \/ CheckDirs
    \/ Setup
    \/ LoopHead
    \/ ClipRequest
    \/ ParseXML
    \/ Download
    \/ StoreRaster
    \/ OpenMask
    \/ Tally
    \/ Lookup
    \/ PostLoop

Spec == Init /\ [][Next]_vars

----------------------------------------------------------------------------
(* Clamping specification: every start year and count around the CDL span, *)
(* run up to the construction of the year list.                            *)

InitClamp ==
    /\ Fresh
    /\ req_beg_yr \in (cdl_yrs[1] - YrMargin)..(cdl_yrs[2] + YrMargin)
    /\ req_num_yrs \in (-1)..(cdl_yrs[2] - cdl_yrs[1] + 1 + YrMargin)
    /\ beg_yr = req_beg_yr
    /\ num_yrs = req_num_yrs
    /\ clean_up = FALSE
    /\ fs \in FsStates
    /\ tifs = {}
    /\ cmap = CmapRows(<<0, 1, 5, 24>>)
    /\ clip_shp = {1, 2, 3}

NextClamp ==
    \/ Clamp
    \/ CheckDirs
    \/ Setup

SpecClamp == InitClamp /\ [][NextClamp]_vars

----------------------------------------------------------------------------
(* Tally specification: every raster of 1..NCells cells and every nonempty *)
(* polygon over its extent, from the point where one year's raster has     *)
(* been stored, through masking and the tally loop.                        *)

Grids == UNION {[1..n -> CellCodes] : n \in 1..NCells}

InitTally ==
    /\ pc = "open"
    /\ error = "none"
    /\ err = FALSE
    /\ req_beg_yr = 2011
    /\ req_num_yrs = 1
    /\ beg_yr = 2011
    /\ num_yrs = 1
    /\ clean_up \in BOOLEAN
    /\ fs = {"geometry", "aoi", "results", "raster"}
    /\ tifs = {2011}
    /\ cmap = CmapRows(<<0, 1, 5, 24>>)
    /\ yrs = <<2011>>
    /\ i = 1
    /\ yr = 2011
    /\ resp = "xml_returnURL"
    /\ dl_url = "url"
    /\ \E g \in Grids :
          /\ payload = RasterBody(g)
          /\ clip_shp \in (SUBSET DOMAIN g) \ {{}}
    /\ dat = <<>>
    /\ crop_max = 0
    /\ max_cnt = 0
    /\ results = <<>>
    /\ csv = <<>>
    /\ io = <<<<"GET_clip", 2011>>, <<"GET_download", 2011>>, <<"write_tif", 2011>>>>

NextTally ==
    \/ OpenMask
    \/ Tally

SpecTally == InitTally /\ [][NextTally]_vars

----------------------------------------------------------------------------
(* Vocabulary of the properties *)

IoCount(kind, y) == Cardinality({j \in DOMAIN io : io[j] = <<kind, y>>})

WroteCsv == \E j \in DOMAIN io : io[j][1] = "write_csv"

CmapCodes == {cmap[r].Codes : r \in DOMAIN cmap}

CmapNames == {cmap[r].Name : r \in DOMAIN cmap}

\* exceptions raised while a year is processed
YearErrors == {"clip_request", "xml_parse", "no_return_url",
               "download_request", "raster_open", "lookup"}

\* the fetch of the current year failed: a request raised, the clip answer
\* was unusable, or the download came back with an error status
FetchFailed ==
    \/ error \in {"clip_request", "xml_parse", "no_return_url", "download_request"}
    \/ error = "raster_open" /\ ~payload.status_ok

\* the lookup step of the current year has acted
LookupDone ==
    /\ i >= 1
    /\ io # <<>>
    /\ io[Len(io)] = <<"mask", yr>>
    /\ pc \notin {"tally", "lookup"}

\* cells of the downloaded raster inside the polygon, and their tallies
InsideCells == clip_shp \cap DOMAIN payload.grid

InsideCodes == {payload.grid[x] : x \in InsideCells} \ {0}

InsideCount(c) == Cardinality({x \in InsideCells : payload.grid[x] = c})

DatCodes == {dat[x] : x \in DOMAIN dat} \ {0}

DatCount(c) == Cardinality({x \in DOMAIN dat : dat[x] = c})

----------------------------------------------------------------------------
(* Properties *)

\* C1: after the clamping step every year of the loop's list lies within
\* the supported span cdl_yrs[1]..cdl_yrs[2], for every configured start
\* year and count.
C1_YearsWithinSpan ==
    pc = "loop" =>
        \A j \in DOMAIN yrs : cdl_yrs[1] <= yrs[j] /\ yrs[j] <= cdl_yrs[2]

\* C2: when the masked grid holds a nonzero cell, the tally ends with
\* crop_max a nonzero code of the masked grid whose count is at least the
\* count of every other nonzero code, and max_cnt that count; cells outside
\* the polygon are not counted and 0 is not selected.
C2_DominantClass ==
    (pc = "lookup" /\ DatCodes # {}) =>
        /\ crop_max # 0
        /\ crop_max \in DatCodes
        /\ max_cnt = DatCount(crop_max)
        /\ \A c \in DatCodes : DatCount(c) <= max_cnt
        /\ crop_max \in InsideCodes
        /\ max_cnt = InsideCount(crop_max)
        /\ \A c \in InsideCodes : InsideCount(c) <= max_cnt

\* C2 witness: code 5 wins with one cell inside the polygon although code 1
\* holds two cells of the raster, both outside the polygon.
C2_Witness ==
    /\ pc = "lookup"
    /\ crop_max = 5
    /\ max_cnt = 1
    /\ Cardinality({x \in DOMAIN payload.grid \ clip_shp : payload.grid[x] = 1}) = 2

\* C3: a run that passed the prerequisite checks and in which no year
\* failed has written a table with one row per year of the clamped range,
\* in increasing year order from the clamped start year, each row pairing
\* the year with the label of its dominant code.
C3_ResultTable ==
    /\ (pc \in {"done", "crashed"} /\ error \notin YearErrors) =>
          /\ WroteCsv
          /\ Len(csv) = num_yrs
          /\ \A j \in DOMAIN csv : csv[j][1] = beg_yr + (j - 1)
    /\ (LookupDone /\ pc = "loop") =>
          /\ crop_max \in DOMAIN ClassNames
          /\ results[i] = <<yr, ClassNames[crop_max]>>

\* C3, for counts of at least one year: the table of C3_ResultTable is
\* written whenever the loop body ran at least once and no year failed.
C3_NonEmptyRangeTable ==
    /\ (pc \in {"done", "crashed"} /\ error \notin YearErrors /\ num_yrs >= 1) =>
          /\ WroteCsv
          /\ Len(csv) = num_yrs
          /\ \A j \in DOMAIN csv : csv[j][1] = beg_yr + (j - 1)
    /\ (LookupDone /\ pc = "loop") =>
          /\ crop_max \in DOMAIN ClassNames
          /\ results[i] = <<yr, ClassNames[crop_max]>>

\* C4: when the geometry directory or the AOI file is missing, the run
\* prints the message and ends; it issues no HTTP request, appends no row
\* and neither writes nor removes a results file.
C4_MissingAoi ==
    ("geometry" \notin fs \/ "aoi" \notin fs) =>
        /\ pc \in {"start", "check", "exit"}
        /\ pc = "exit" => (io = <<<<"print_err", 0>>>> /\ err /\ ~ENABLED Next)
        /\ pc # "exit" => io = <<>>
        /\ results = <<>>
        /\ csv = <<>>
        /\ error = "none"

\* C4 witness: the run has ended on the message in a directory that has the
\* geometry directory and a prior results file but no AOI file.
C4_Witness ==
    /\ pc = "exit"
    /\ "geometry" \in fs
    /\ "aoi" \notin fs
    /\ "csv" \in fs

\* C5: the results file is written only after every year of the clamped
\* range was fetched, tallied and appended; a run that aborts while a year
\* is processed writes no results file, however many years completed.
C5_AllOrNothing ==
    /\ WroteCsv =>
          /\ pc = "done"
          /\ error = "none"
          /\ io[Len(io)][1] = "write_csv"
          /\ Len(results) = num_yrs
          /\ csv = results
          /\ \A j \in 1..num_yrs :
                /\ IoCount("GET_clip", beg_yr + (j - 1)) = 1
                /\ IoCount("GET_download", beg_yr + (j - 1)) = 1
                /\ IoCount("mask", beg_yr + (j - 1)) = 1
                /\ results[j][1] = beg_yr + (j - 1)
    /\ error \in YearErrors => (~WroteCsv /\ csv = <<>>)

\* C5 witness: a run aborted in its third year after two years completed,
\* and no results file was written.
C5_Witness ==
    /\ pc = "crashed"
    /\ error \in YearErrors
    /\ Len(results) = 2
    /\ ~WroteCsv

\* C6: when the winning code has no row in the class code map the run ends
\* in an error: no row for the year, no later year processed, no results
\* file; and no row ever carries a label that is not in the map.
C6_LookupMiss ==
    /\ (LookupDone /\ crop_max \notin CmapCodes) =>
          /\ pc = "crashed"
          /\ error = "lookup"
          /\ ~ENABLED Next
          /\ Len(results) = i - 1
          /\ \A j \in DOMAIN results : results[j][1] # yr
          /\ \A j \in DOMAIN io : io[j][2] <= yr
          /\ ~WroteCsv
    /\ \A j \in DOMAIN results : results[j][2] \in CmapNames

\* C6 witness: code 24 won a year, the map has no row for it, and the run
\* stopped with an earlier year recorded and a later year left.
C6_Witness ==
    /\ pc = "crashed"
    /\ error = "lookup"
    /\ crop_max = 24
    /\ Len(results) >= 1
    /\ i < Len(yrs)

\* C7: when the masked grid of a year holds no nonzero cell the run reports
\* a no-cover-data error and no row with the label of code 0 is appended,
\* whether or not the class code map has a row for code 0.
C7_NoCoverData ==
    /\ \A j \in DOMAIN results : results[j][2] # ClassNames[0]
    /\ (LookupDone /\ DatCodes = {}) => error = "no_cover_data"

\* C8: a failed fetch (clip request, missing returnURL, unparseable answer,
\* download request) aborts the run: no request is retried, no raster is
\* tallied and no row appended for the year, no later year is fetched and
\* no results file is written.
C8_FetchFailure ==
    /\ FetchFailed =>
          /\ pc = "crashed"
          /\ ~ENABLED Next
          /\ IoCount("mask", yr) = 0
          /\ Len(results) = i - 1
          /\ \A j \in DOMAIN results : results[j][1] # yr
          /\ \A j \in DOMAIN io : io[j][2] <= yr
          /\ ~WroteCsv
          /\ csv = <<>>
    /\ error \in {"clip_request", "xml_parse", "no_return_url"} =>
          IoCount("GET_download", yr) = 0
    /\ \A j \in DOMAIN yrs :
          /\ IoCount("GET_clip", yrs[j]) <= 1
          /\ IoCount("GET_download", yrs[j]) <= 1
    /\ (i >= 1 /\ IoCount("mask", yr) > 0) =>
          (resp = "xml_returnURL" /\ payload.valid /\ payload.status_ok)

\* C8 witness: the download request of a year raised after an earlier year
\* completed and with a later year left.
C8_Witness ==
    /\ pc = "crashed"
    /\ error = "download_request"
    /\ Len(results) >= 1
    /\ i < Len(yrs)

\* C9: when several nonzero codes share the greatest count in the masked
\* grid, the lowest of them is selected.
C9_TieBreakLowest ==
    (pc = "lookup" /\ InsideCodes # {}) =>
        crop_max = SetMin({c \in InsideCodes :
                              \A d \in InsideCodes : InsideCount(d) <= InsideCount(c)})

\* C9 witness: two codes tie for the greatest count and the tally has ended.
C9_Witness ==
    /\ pc = "lookup"
    /\ \E c \in InsideCodes : \E d \in InsideCodes :
          /\ c < d
          /\ InsideCount(c) = max_cnt
          /\ InsideCount(d) = max_cnt
          /\ crop_max = c

\* C10: a request whose years all lie within the supported span is left
\* unchanged by the clamping, so exactly the requested years are processed.
C10_ValidRequestUnchanged ==
    (/\ pc # "start"
     /\ req_num_yrs >= 1
     /\ req_beg_yr >= cdl_yrs[1]
     /\ req_beg_yr + req_num_yrs - 1 <= cdl_yrs[2]) =>
        /\ beg_yr = req_beg_yr
        /\ num_yrs = req_num_yrs
        /\ pc = "loop" => yrs = [j \in 1..req_num_yrs |-> req_beg_yr + (j - 1)]

====
